---- MODULE Spec2Model ----
(***************************************************************************)
(* Model of the go-gin-todo-app request handlers and their in-memory store *)
(* (todos, nextID, todoMu).  Every request runs in its own goroutine; a    *)
(* goroutine is a process p whose position in its handler is pc[p].        *)
(***************************************************************************)
EXTENDS Integers, Sequences, FiniteSets, TLC

(* ---------------------------------------------------------------- bounds *)

\* nextID is capped: the model accepts no Create once MaxCreates ids are handed out or asked for.
MaxCreates == 2

\* time.Now() returns the instants 1..MaxClock.
MaxClock == 2

\* The model accepts MaxRequests requests in all.
MaxRequests == 4

\* Width of the machine integer (Go's int), in bits.
IntBits == 16

\* The concurrent request goroutines.
Procs == {"p1", "p2"}

VARIABLES
    todos,      \* var todos []Todo
    nextID,     \* var nextID int = 1
    todoMu,     \* var todoMu sync.RWMutex: [writer, readers]
    clock,      \* the latest value time.Now() returned
    pc,         \* position of each goroutine in its handler
    req,        \* the request a goroutine serves: [op, id, body, page, limit]
    local,      \* handler locals: [id, todo, i, buf]
    resp,       \* what the handler wrote with c.JSON: [status, todos, meta]
    created,    \* history: ids returned by the successful Creates, in order
    deleted,    \* history: ids removed by a successful Delete
    snap,       \* history: the store as it was when the goroutine got the lock
    started     \* history: the number of requests that arrived (-1: not counted)

vars == <<todos, nextID, todoMu, clock, pc, req, local, resp, created, deleted, snap, started>>

None == "none"

(* ------------------------------------------------------------------ data *)

\* The zero value of a Todo (var newTodo Todo); the zero time is 0.
ZeroTodo ==
    [ID |-> 0, Title |-> "", Description |-> "", Completed |-> FALSE,
     CreatedAt |-> 0, UpdatedAt |-> 0]

\* A JSON request body: ok = FALSE is a body that does not deserialize into a
\* Todo; has = the keys present; the other fields are the values of those keys.
MalformedBody ==
    [ok |-> FALSE, has |-> {}, id |-> 0, title |-> "", description |-> "",
     completed |-> FALSE, created_at |-> 0, updated_at |-> 0]

TitleOnlyBody ==
    [ok |-> TRUE, has |-> {"title"}, id |-> 0, title |-> "a", description |-> "",
     completed |-> FALSE, created_at |-> 0, updated_at |-> 0]

FullBody ==
    [ok |-> TRUE,
     has |-> {"id", "title", "description", "completed", "created_at", "updated_at"},
     id |-> 7, title |-> "b", description |-> "d", completed |-> TRUE,
     created_at |-> 9, updated_at |-> 9]

Bodies == {MalformedBody, TitleOnlyBody, FullBody}

\* c.ShouldBindJSON(&t) on a well-formed body: keys present overwrite the
\* field, keys absent leave the zero value.
BindJSON(body) ==
    [ID          |-> IF "id" \in body.has THEN body.id ELSE ZeroTodo.ID,
     Title       |-> IF "title" \in body.has THEN body.title ELSE ZeroTodo.Title,
     Description |-> IF "description" \in body.has THEN body.description
                     ELSE ZeroTodo.Description,
     Completed   |-> IF "completed" \in body.has THEN body.completed
                     ELSE ZeroTodo.Completed,
     CreatedAt   |-> IF "created_at" \in body.has THEN body.created_at
                     ELSE ZeroTodo.CreatedAt,
     UpdatedAt   |-> IF "updated_at" \in body.has THEN body.updated_at
                     ELSE ZeroTodo.UpdatedAt]

\* Path parameters, as the characters of the literal.
IdParams == {<<"1">>, <<"2">>, <<"x">>}

Digits == {"0", "1", "2", "3", "4", "5", "6", "7", "8", "9"}

DigitVal(ch) ==
    CASE ch = "0" -> 0 [] ch = "1" -> 1 [] ch = "2" -> 2 [] ch = "3" -> 3
      [] ch = "4" -> 4 [] ch = "5" -> 5 [] ch = "6" -> 6 [] ch = "7" -> 7
      [] ch = "8" -> 8 [] ch = "9" -> 9

RECURSIVE DigitsVal(_)
DigitsVal(s) ==
    IF s = <<>> THEN 0
    ELSE 10 * DigitsVal(SubSeq(s, 1, Len(s) - 1)) + DigitVal(s[Len(s)])

MaxInt == 2 ^ (IntBits - 1) - 1
MinInt == 0 - 2 ^ (IntBits - 1)

\* Two's-complement wrap-around of the machine integer.
Wrap(x) == ((x - MinInt) % (2 ^ IntBits)) + MinInt

\* strconv.Atoi: an optional sign, then one or more decimal digits, and a
\* value the machine integer holds; anything else is an error.
AtoiOk(s) ==
    LET d == IF s /= <<>> /\ s[1] \in {"+", "-"} THEN Tail(s) ELSE s
    IN  /\ d /= <<>>
        /\ \A k \in 1..Len(d) : d[k] \in Digits
        /\ IF s[1] = "-" THEN 0 - DigitsVal(d) >= MinInt ELSE DigitsVal(d) <= MaxInt

Atoi(s) ==
    IF s[1] = "-" THEN 0 - DigitsVal(Tail(s))
    ELSE IF s[1] = "+" THEN DigitsVal(Tail(s))
    ELSE DigitsVal(s)

\* for i, todo := range todos { if todo.ID == id {...} }: the first index
\* whose record has the id, 0 when the loop falls through.
RECURSIVE ScanFrom(_, _, _)
ScanFrom(s, id, k) ==
    IF k > Len(s) THEN 0
    ELSE IF s[k].ID = id THEN k
    ELSE ScanFrom(s, id, k + 1)

Scan(s, id) == ScanFrom(s, id, 1)

\* Variant: the slice is cut at the record.
RemoveAtTruncate(s, i) == SubSeq(s, 1, i - 1)

\* append(todos[:i], todos[i+1:]...)
RemoveAt(s, i) == SubSeq(s, 1, i - 1) \o SubSeq(s, i + 1, Len(s))

NoReq == [op |-> None, id |-> <<>>, body |-> MalformedBody, page |-> <<>>, limit |-> <<>>]
NoLocal == [id |-> 0, todo |-> ZeroTodo, i |-> 0, buf |-> <<>>]
\* The pagination fields of a response that has none.
NoMeta ==
    [total_count |-> 0, current_page |-> 0, total_pages |-> 0, per_page |-> 0,
     has_next |-> FALSE, has_prev |-> FALSE]

NoResp == [status |-> 0, todos |-> <<>>, meta |-> NoMeta]

\* c.JSON(status, ...) of a handler other than the paginated listing.
Response(status, records) == [status |-> status, todos |-> records, meta |-> NoMeta]

\* page := 1; limit := 10; the cap on limit
DefaultPage == 1
DefaultLimit == 10
MaxLimit == 100

\* Query parameters of the listing, as the characters of the literal
\* (c.Query gives "" for an absent one).
Queries == {[page |-> <<>>, limit |-> <<>>], [page |-> <<"2">>, limit |-> <<"1">>]}

\* if p, err := strconv.Atoi(pageParam); err == nil && p > 0 { page = p }
EffectivePage(param) ==
    IF param /= <<>> /\ AtoiOk(param) /\ Atoi(param) > 0 THEN Atoi(param) ELSE DefaultPage

\* the same for limit, capped at 100
EffectiveLimit(param) ==
    IF param /= <<>> /\ AtoiOk(param) /\ Atoi(param) > 0
    THEN IF Atoi(param) <= MaxLimit THEN Atoi(param) ELSE MaxLimit
    ELSE DefaultLimit

\* Variant: has_next is still true on the last page.
PaginateHasNextOnLastPage(s, pageParam, limitParam) ==
    LET page == EffectivePage(pageParam)
        limit == EffectiveLimit(limitParam)
        totalCount == Len(s)
        pages == Wrap(totalCount + limit - 1) \div limit
        totalPages == IF pages = 0 THEN 1 ELSE pages
        offset == Wrap((page - 1) * limit)
        sum == Wrap(offset + limit)
        end == IF sum > totalCount THEN totalCount ELSE sum
        meta == [total_count |-> totalCount, current_page |-> page,
                 total_pages |-> totalPages, per_page |-> limit,
                 has_next |-> FALSE, has_prev |-> page > 1]
    IN  IF offset >= totalCount
        THEN [status |-> 200, todos |-> <<>>, meta |-> meta]
        ELSE IF offset < 0 \/ end < offset
        THEN [status |-> 500, todos |-> <<>>, meta |-> NoMeta]
        ELSE [status |-> 200, todos |-> SubSeq(s, offset + 1, end),
              meta |-> [meta EXCEPT !.has_next = page <= totalPages]]

\* The pagination of GetTodos over the slice s.  Slicing with a bound
\* outside 0 <= low <= high <= len panics; gin's Recovery answers 500.
Paginate(s, pageParam, limitParam) ==
    LET page == EffectivePage(pageParam)
        limit == EffectiveLimit(limitParam)
        totalCount == Len(s)
        pages == Wrap(totalCount + limit - 1) \div limit
        totalPages == IF pages = 0 THEN 1 ELSE pages
        offset == Wrap((page - 1) * limit)
        sum == Wrap(offset + limit)
        end == IF sum > totalCount THEN totalCount ELSE sum
        meta == [total_count |-> totalCount, current_page |-> page,
                 total_pages |-> totalPages, per_page |-> limit,
                 has_next |-> FALSE, has_prev |-> page > 1]
    IN  IF offset >= totalCount
        THEN [status |-> 200, todos |-> <<>>, meta |-> meta]
        ELSE IF offset < 0 \/ end < offset
        THEN [status |-> 500, todos |-> <<>>, meta |-> NoMeta]
        ELSE [status |-> 200, todos |-> SubSeq(s, offset + 1, end),
              meta |-> [meta EXCEPT !.has_next = page < totalPages]]

NoSnap == [held |-> FALSE, todos |-> <<>>, nextID |-> 0]

Init ==
    /\ todos = <<>>
    /\ nextID = 1
    /\ todoMu = [writer |-> None, readers |-> {}]
    /\ clock = 1
    /\ pc = [p \in Procs |-> "idle"]
    /\ req = [p \in Procs |-> NoReq]
    /\ local = [p \in Procs |-> NoLocal]
    /\ resp = [p \in Procs |-> NoResp]
    /\ created = <<>>
    /\ deleted = {}
    /\ snap = [p \in Procs |-> NoSnap]
    /\ started = 0

(* ---------------------------------------------------------- the requests *)

\* A request arrives.  The requests are counted, and at most MaxRequests of
\* them arrive, unless the count is off (started = -1): then they arrive
\* without end.
Admit ==
    IF started < 0 THEN UNCHANGED started
    ELSE started < MaxRequests /\ started' = started + 1

(* ------------------------------------------------------------- the clock *)

\* time.Now(): the values a call may return, given the latest value any call
\* returned so far (the clock does not run backwards).
Now == clock..MaxClock

(* -------------------------------------------------------------- the lock *)

\* Variant: a writer waits for the other writers only.
CanLockIgnoringReaders == todoMu.writer = None

\* todoMu.Lock(): blocks while a writer or any reader holds the lock.
CanLock == todoMu.writer = None /\ todoMu.readers = {}

\* todoMu.RLock(): blocks while a writer holds the lock.
CanRLock == todoMu.writer = None

Lock(p, next) ==
    /\ CanLock
    /\ todoMu' = [todoMu EXCEPT !.writer = p]
    /\ snap' = [snap EXCEPT ![p] = [held |-> TRUE, todos |-> todos, nextID |-> nextID]]
    /\ pc' = [pc EXCEPT ![p] = next]

RLock(p, next) ==
    /\ CanRLock
    /\ todoMu' = [todoMu EXCEPT !.readers = @ \cup {p}]
    /\ snap' = [snap EXCEPT ![p] = [held |-> TRUE, todos |-> todos, nextID |-> nextID]]
    /\ pc' = [pc EXCEPT ![p] = next]

\* The handler returns: the request is over and its locals are gone.
Finish(p) ==
    /\ pc' = [pc EXCEPT ![p] = "idle"]
    /\ req' = [req EXCEPT ![p] = NoReq]
    /\ local' = [local EXCEPT ![p] = NoLocal]
    /\ resp' = [resp EXCEPT ![p] = NoResp]
    /\ snap' = [snap EXCEPT ![p] = NoSnap]

\* defer todoMu.Unlock()
Unlock(p) ==
    /\ pc[p] = "ret"
    /\ todoMu.writer = p
    /\ todoMu' = [todoMu EXCEPT !.writer = None]
    /\ Finish(p)
    /\ UNCHANGED <<todos, nextID, clock, created, deleted, started>>

\* Variant: the shared lock is released by the last statement, not by a
\* defer, so a handler that panics returns with the lock.
RUnlockUnlessPanic(p) ==
    /\ pc[p] = "ret"
    /\ p \in todoMu.readers
    /\ todoMu' = IF resp[p].status = 500 THEN todoMu
                 ELSE [todoMu EXCEPT !.readers = @ \ {p}]
    /\ Finish(p)
    /\ UNCHANGED <<todos, nextID, clock, created, deleted, started>>

\* defer todoMu.RUnlock()
RUnlock(p) ==
    /\ pc[p] = "ret"
    /\ p \in todoMu.readers
    /\ todoMu' = [todoMu EXCEPT !.readers = @ \ {p}]
    /\ Finish(p)
    /\ UNCHANGED <<todos, nextID, clock, created, deleted, started>>

\* return of a handler that asked for no lock (a 400, the health check)
Return(p) ==
    /\ pc[p] = "ret"
    /\ todoMu.writer /= p
    /\ p \notin todoMu.readers
    /\ Finish(p)
    /\ UNCHANGED <<todos, nextID, todoMu, clock, created, deleted, started>>

(* ------------------------------------------------------------ CreateTodo *)

\* Variant: the handler ignores err and goes on with what was bound.
CreateTodoBindIgnoringErr(p, body) ==
    /\ pc[p] = "idle"
    /\ Admit
    /\ nextID + Cardinality({q \in Procs : pc[q] \in {"c_lock", "c_id", "c_inc"}}) <= MaxCreates
    /\ req' = [req EXCEPT ![p] = [NoReq EXCEPT !.op = "CreateTodo", !.body = body]]
    /\ local' = [local EXCEPT ![p].todo = IF body.ok THEN BindJSON(body) ELSE ZeroTodo]
    /\ pc' = [pc EXCEPT ![p] = "c_lock"]
    /\ UNCHANGED <<todos, nextID, todoMu, clock, resp, created, deleted, snap>>

\* POST /api/v1/todos arrives: var newTodo Todo; c.ShouldBindJSON(&newTodo)
CreateTodoBind(p, body) ==
    /\ pc[p] = "idle"
    /\ Admit
    /\ nextID + Cardinality({q \in Procs : pc[q] \in {"c_lock", "c_id", "c_inc"}}) <= MaxCreates
    /\ req' = [req EXCEPT ![p] = [NoReq EXCEPT !.op = "CreateTodo", !.body = body]]
    /\ IF body.ok
       THEN /\ local' = [local EXCEPT ![p].todo = BindJSON(body)]
            /\ pc' = [pc EXCEPT ![p] = "c_lock"]
            /\ UNCHANGED resp
       ELSE /\ resp' = [resp EXCEPT ![p] = Response(400, <<>>)]
            /\ pc' = [pc EXCEPT ![p] = "ret"]
            /\ UNCHANGED local
    /\ UNCHANGED <<todos, nextID, todoMu, clock, created, deleted, snap>>

\* Variant: the handler takes the shared lock.
CreateTodoRLock(p) ==
    /\ pc[p] = "c_lock"
    /\ RLock(p, "c_id")
    /\ UNCHANGED <<todos, nextID, clock, req, local, resp, created, deleted, started>>

CreateTodoLock(p) ==
    /\ pc[p] = "c_lock"
    /\ Lock(p, "c_id")
    /\ UNCHANGED <<todos, nextID, clock, req, local, resp, created, deleted, started>>

\* Variant: the id is taken from the size of the collection.
CreateTodoAssignIDFromLen(p) ==
    /\ pc[p] = "c_id"
    /\ local' = [local EXCEPT ![p].todo.ID = Len(todos) + 1]
    /\ pc' = [pc EXCEPT ![p] = "c_inc"]
    /\ UNCHANGED <<todos, nextID, todoMu, clock, req, resp, created, deleted, snap, started>>

\* newTodo.ID = nextID
CreateTodoAssignID(p) ==
    /\ pc[p] = "c_id"
    /\ local' = [local EXCEPT ![p].todo.ID = nextID]
    /\ pc' = [pc EXCEPT ![p] = "c_inc"]
    /\ UNCHANGED <<todos, nextID, todoMu, clock, req, resp, created, deleted, snap, started>>

\* Variant: the counter is left as it is.
CreateTodoNoIncrement(p) ==
    /\ pc[p] = "c_inc"
    /\ pc' = [pc EXCEPT ![p] = "c_created"]
    /\ UNCHANGED <<todos, nextID, todoMu, clock, req, local, resp, created, deleted, snap, started>>

\* nextID++
CreateTodoIncrement(p) ==
    /\ pc[p] = "c_inc"
    /\ nextID' = nextID + 1
    /\ pc' = [pc EXCEPT ![p] = "c_created"]
    /\ UNCHANGED <<todos, todoMu, clock, req, local, resp, created, deleted, snap, started>>

\* newTodo.CreatedAt = time.Now()
CreateTodoCreatedAt(p) ==
    /\ pc[p] = "c_created"
    /\ \E t \in Now :
          /\ clock' = t
          /\ local' = [local EXCEPT ![p].todo.CreatedAt = t]
    /\ pc' = [pc EXCEPT ![p] = "c_updated"]
    /\ UNCHANGED <<todos, nextID, todoMu, req, resp, created, deleted, snap, started>>

\* newTodo.UpdatedAt = time.Now()
CreateTodoUpdatedAt(p) ==
    /\ pc[p] = "c_updated"
    /\ \E t \in Now :
          /\ clock' = t
          /\ local' = [local EXCEPT ![p].todo.UpdatedAt = t]
    /\ pc' = [pc EXCEPT ![p] = "c_append"]
    /\ UNCHANGED <<todos, nextID, todoMu, req, resp, created, deleted, snap, started>>

\* append(todos, newTodo): the slice with the new record at its end
CreateTodoAppend(p) ==
    /\ pc[p] = "c_append"
    /\ local' = [local EXCEPT ![p].buf = Append(todos, local[p].todo)]
    /\ pc' = [pc EXCEPT ![p] = "c_assign"]
    /\ UNCHANGED <<todos, nextID, todoMu, clock, req, resp, created, deleted, snap, started>>

\* todos = (the appended slice); c.JSON(http.StatusCreated, newTodo)
CreateTodoAssign(p) ==
    /\ pc[p] = "c_assign"
    /\ todos' = local[p].buf
    /\ resp' = [resp EXCEPT ![p] = Response(201, <<local[p].todo>>)]
    /\ created' = Append(created, local[p].todo.ID)
    /\ pc' = [pc EXCEPT ![p] = "ret"]
    /\ UNCHANGED <<nextID, todoMu, clock, req, local, deleted, snap, started>>

CreateTodo(p) ==
    \/ \E body \in Bodies : CreateTodoBind(p, body)
    \/ CreateTodoLock(p)
    \/ CreateTodoAssignID(p)
    \/ CreateTodoIncrement(p)
    \/ CreateTodoCreatedAt(p)
    \/ CreateTodoUpdatedAt(p)
    \/ CreateTodoAppend(p)
    \/ CreateTodoAssign(p)

(* --------------------------------------------------------------- GetTodo *)

\* GET /api/v1/todos/:id arrives: id, err := strconv.Atoi(c.Param("id"))
GetTodoParse(p, id) ==
    /\ pc[p] = "idle"
    /\ Admit
    /\ req' = [req EXCEPT ![p] = [NoReq EXCEPT !.op = "GetTodo", !.id = id]]
    /\ IF AtoiOk(id)
       THEN /\ local' = [local EXCEPT ![p].id = Atoi(id)]
            /\ pc' = [pc EXCEPT ![p] = "g_rlock"]
            /\ UNCHANGED resp
       ELSE /\ resp' = [resp EXCEPT ![p] = Response(400, <<>>)]
            /\ pc' = [pc EXCEPT ![p] = "ret"]
            /\ UNCHANGED local
    /\ UNCHANGED <<todos, nextID, todoMu, clock, created, deleted, snap>>

GetTodoRLock(p) ==
    /\ pc[p] = "g_rlock"
    /\ RLock(p, "g_scan")
    /\ UNCHANGED <<todos, nextID, clock, req, local, resp, created, deleted, started>>

\* Variant: the loop answers with the last record of the slice.
GetTodoScanLast(p) ==
    /\ pc[p] = "g_scan"
    /\ LET i == Scan(todos, local[p].id)
       IN  resp' = [resp EXCEPT ![p] =
                       IF i = 0 THEN Response(404, <<>>)
                       ELSE Response(200, <<todos[Len(todos)]>>)]
    /\ pc' = [pc EXCEPT ![p] = "ret"]
    /\ UNCHANGED <<todos, nextID, todoMu, clock, req, local, created, deleted, snap, started>>

\* the loop over todos: c.JSON(200, todo) at the first match, else the 404
GetTodoScan(p) ==
    /\ pc[p] = "g_scan"
    /\ LET i == Scan(todos, local[p].id)
       IN  resp' = [resp EXCEPT ![p] =
                       IF i = 0 THEN Response(404, <<>>) ELSE Response(200, <<todos[i]>>)]
    /\ pc' = [pc EXCEPT ![p] = "ret"]
    /\ UNCHANGED <<todos, nextID, todoMu, clock, req, local, created, deleted, snap, started>>

GetTodo(p) ==
    \/ \E id \in IdParams : GetTodoParse(p, id)
    \/ GetTodoRLock(p)
    \/ GetTodoScan(p)

(* ------------------------------------------------------------ UpdateTodo *)

\* PUT /api/v1/todos/:id arrives: strconv.Atoi(c.Param("id")), then
\* var updatedTodo Todo; c.ShouldBindJSON(&updatedTodo)
UpdateTodoParse(p, id, body) ==
    /\ pc[p] = "idle"
    /\ Admit
    /\ req' = [req EXCEPT ![p] = [NoReq EXCEPT !.op = "UpdateTodo", !.id = id, !.body = body]]
    /\ IF AtoiOk(id) /\ body.ok
       THEN /\ local' = [local EXCEPT ![p].id = Atoi(id), ![p].todo = BindJSON(body)]
            /\ pc' = [pc EXCEPT ![p] = "u_lock"]
            /\ UNCHANGED resp
       ELSE /\ resp' = [resp EXCEPT ![p] = Response(400, <<>>)]
            /\ pc' = [pc EXCEPT ![p] = "ret"]
            /\ UNCHANGED local
    /\ UNCHANGED <<todos, nextID, todoMu, clock, created, deleted, snap>>

UpdateTodoLock(p) ==
    /\ pc[p] = "u_lock"
    /\ Lock(p, "u_scan")
    /\ UNCHANGED <<todos, nextID, clock, req, local, resp, created, deleted, started>>

\* Variant: created_at is left as the body gave it.
UpdateTodoScanKeepsCreatedAt(p) ==
    /\ pc[p] = "u_scan"
    /\ LET i == Scan(todos, local[p].id)
       IN  IF i = 0
           THEN /\ resp' = [resp EXCEPT ![p] = Response(404, <<>>)]
                /\ pc' = [pc EXCEPT ![p] = "ret"]
                /\ UNCHANGED local
           ELSE /\ local' = [local EXCEPT ![p].i = i, ![p].todo.ID = local[p].id]
                /\ pc' = [pc EXCEPT ![p] = "u_now"]
                /\ UNCHANGED resp
    /\ UNCHANGED <<todos, nextID, todoMu, clock, req, created, deleted, snap, started>>

\* the loop over todos; at the match: updatedTodo.ID = id;
\* updatedTodo.CreatedAt = todo.CreatedAt.  Falling through: the 404.
UpdateTodoScan(p) ==
    /\ pc[p] = "u_scan"
    /\ LET i == Scan(todos, local[p].id)
       IN  IF i = 0
           THEN /\ resp' = [resp EXCEPT ![p] = Response(404, <<>>)]
                /\ pc' = [pc EXCEPT ![p] = "ret"]
                /\ UNCHANGED local
           ELSE /\ local' = [local EXCEPT ![p].i = i,
                                          ![p].todo.ID = local[p].id,
                                          ![p].todo.CreatedAt = todos[i].CreatedAt]
                /\ pc' = [pc EXCEPT ![p] = "u_now"]
                /\ UNCHANGED resp
    /\ UNCHANGED <<todos, nextID, todoMu, clock, req, created, deleted, snap, started>>

\* Variant: updated_at is left as the body gave it.
UpdateTodoKeepsUpdatedAt(p) ==
    /\ pc[p] = "u_now"
    /\ pc' = [pc EXCEPT ![p] = "u_store"]
    /\ UNCHANGED <<todos, nextID, todoMu, clock, req, local, resp, created, deleted, snap, started>>

\* updatedTodo.UpdatedAt = time.Now()
UpdateTodoUpdatedAt(p) ==
    /\ pc[p] = "u_now"
    /\ \E t \in Now :
          /\ clock' = t
          /\ local' = [local EXCEPT ![p].todo.UpdatedAt = t]
    /\ pc' = [pc EXCEPT ![p] = "u_store"]
    /\ UNCHANGED <<todos, nextID, todoMu, req, resp, created, deleted, snap, started>>

\* todos[i] = updatedTodo; c.JSON(http.StatusOK, updatedTodo).  An index
\* outside the slice panics; gin's Recovery answers 500.
UpdateTodoStore(p) ==
    /\ pc[p] = "u_store"
    /\ IF local[p].i \in 1..Len(todos)
       THEN /\ todos' = [todos EXCEPT ![local[p].i] = local[p].todo]
            /\ resp' = [resp EXCEPT ![p] = Response(200, <<local[p].todo>>)]
       ELSE /\ resp' = [resp EXCEPT ![p] = Response(500, <<>>)]
            /\ UNCHANGED todos
    /\ pc' = [pc EXCEPT ![p] = "ret"]
    /\ UNCHANGED <<nextID, todoMu, clock, req, local, created, deleted, snap, started>>

UpdateTodo(p) ==
    \/ \E id \in IdParams, body \in Bodies : UpdateTodoParse(p, id, body)
    \/ UpdateTodoLock(p)
    \/ UpdateTodoScan(p)
    \/ UpdateTodoUpdatedAt(p)
    \/ UpdateTodoStore(p)

(* ------------------------------------------------------------ DeleteTodo *)

\* Variant: the handler ignores err and goes on with the id 0.
DeleteTodoParseIgnoringErr(p, id) ==
    /\ pc[p] = "idle"
    /\ Admit
    /\ req' = [req EXCEPT ![p] = [NoReq EXCEPT !.op = "DeleteTodo", !.id = id]]
    /\ local' = [local EXCEPT ![p].id = IF AtoiOk(id) THEN Atoi(id) ELSE 0]
    /\ pc' = [pc EXCEPT ![p] = "d_lock"]
    /\ UNCHANGED <<todos, nextID, todoMu, clock, resp, created, deleted, snap>>

\* DELETE /api/v1/todos/:id arrives: id, err := strconv.Atoi(c.Param("id"))
DeleteTodoParse(p, id) ==
    /\ pc[p] = "idle"
    /\ Admit
    /\ req' = [req EXCEPT ![p] = [NoReq EXCEPT !.op = "DeleteTodo", !.id = id]]
    /\ IF AtoiOk(id)
       THEN /\ local' = [local EXCEPT ![p].id = Atoi(id)]
            /\ pc' = [pc EXCEPT ![p] = "d_lock"]
            /\ UNCHANGED resp
       ELSE /\ resp' = [resp EXCEPT ![p] = Response(400, <<>>)]
            /\ pc' = [pc EXCEPT ![p] = "ret"]
            /\ UNCHANGED local
    /\ UNCHANGED <<todos, nextID, todoMu, clock, created, deleted, snap>>

\* Variant: the handler takes the shared lock.
DeleteTodoRLock(p) ==
    /\ pc[p] = "d_lock"
    /\ RLock(p, "d_scan")
    /\ UNCHANGED <<todos, nextID, clock, req, local, resp, created, deleted, started>>

DeleteTodoLock(p) ==
    /\ pc[p] = "d_lock"
    /\ Lock(p, "d_scan")
    /\ UNCHANGED <<todos, nextID, clock, req, local, resp, created, deleted, started>>

\* the loop over todos: stops at the first match, else the 404
DeleteTodoScan(p) ==
    /\ pc[p] = "d_scan"
    /\ LET i == Scan(todos, local[p].id)
       IN  IF i = 0
           THEN /\ resp' = [resp EXCEPT ![p] = Response(404, <<>>)]
                /\ pc' = [pc EXCEPT ![p] = "ret"]
                /\ UNCHANGED local
           ELSE /\ local' = [local EXCEPT ![p].i = i]
                /\ pc' = [pc EXCEPT ![p] = "d_remove"]
                /\ UNCHANGED resp
    /\ UNCHANGED <<todos, nextID, todoMu, clock, req, created, deleted, snap, started>>

\* todos = append(todos[:i], todos[i+1:]...); c.JSON(200, message).  An
\* index outside the slice panics; gin's Recovery answers 500.
DeleteTodoRemove(p) ==
    /\ pc[p] = "d_remove"
    /\ IF local[p].i \in 1..Len(todos)
       THEN /\ todos' = RemoveAt(todos, local[p].i)
            /\ resp' = [resp EXCEPT ![p] = Response(200, <<>>)]
            /\ deleted' = deleted \cup {local[p].id}
       ELSE /\ resp' = [resp EXCEPT ![p] = Response(500, <<>>)]
            /\ UNCHANGED <<todos, deleted>>
    /\ pc' = [pc EXCEPT ![p] = "ret"]
    /\ UNCHANGED <<nextID, todoMu, clock, req, local, created, snap, started>>

DeleteTodo(p) ==
    \/ \E id \in IdParams : DeleteTodoParse(p, id)
    \/ DeleteTodoLock(p)
    \/ DeleteTodoScan(p)
    \/ DeleteTodoRemove(p)

(* ------------------------------------------ GetTodos, the full listing *)

\* GET /api/v1/todos arrives (main.go)
GetTodosAllStart(p) ==
    /\ pc[p] = "idle"
    /\ Admit
    /\ req' = [req EXCEPT ![p] = [NoReq EXCEPT !.op = "GetTodosAll"]]
    /\ pc' = [pc EXCEPT ![p] = "a_rlock"]
    /\ UNCHANGED <<todos, nextID, todoMu, clock, local, resp, created, deleted, snap>>

GetTodosAllRLock(p) ==
    /\ pc[p] = "a_rlock"
    /\ RLock(p, "a_list")
    /\ UNCHANGED <<todos, nextID, clock, req, local, resp, created, deleted, started>>

\* c.JSON(http.StatusOK, gin.H{"todos": todos})
GetTodosAllList(p) ==
    /\ pc[p] = "a_list"
    /\ resp' = [resp EXCEPT ![p] = Response(200, todos)]
    /\ pc' = [pc EXCEPT ![p] = "ret"]
    /\ UNCHANGED <<todos, nextID, todoMu, clock, req, local, created, deleted, snap, started>>

GetTodosAll(p) ==
    \/ GetTodosAllStart(p)
    \/ GetTodosAllRLock(p)
    \/ GetTodosAllList(p)

(* ----------------------------------------- GetTodos, the paginated listing *)

\* GET /api/v1/todos?page=&limit= arrives (the paginated GetTodos)
GetTodosStart(p, query) ==
    /\ pc[p] = "idle"
    /\ Admit
    /\ req' = [req EXCEPT ![p] = [NoReq EXCEPT !.op = "GetTodos", !.page = query.page, !.limit = query.limit]]
    /\ pc' = [pc EXCEPT ![p] = "l_rlock"]
    /\ UNCHANGED <<todos, nextID, todoMu, clock, local, resp, created, deleted, snap>>

GetTodosRLock(p) ==
    /\ pc[p] = "l_rlock"
    /\ RLock(p, "l_page")
    /\ UNCHANGED <<todos, nextID, clock, req, local, resp, created, deleted, started>>

\* the parameters, the pagination and the c.JSON of the page
GetTodosPage(p) ==
    /\ pc[p] = "l_page"
    /\ resp' = [resp EXCEPT ![p] = Paginate(todos, req[p].page, req[p].limit)]
    /\ pc' = [pc EXCEPT ![p] = "ret"]
    /\ UNCHANGED <<todos, nextID, todoMu, clock, req, local, created, deleted, snap, started>>

GetTodos(p) ==
    \/ \E query \in Queries : GetTodosStart(p, query)
    \/ GetTodosRLock(p)
    \/ GetTodosPage(p)

(* ---------------------------------------------------------- health check *)

\* GET /health: a constant payload, no access to the store
Health(p) ==
    /\ pc[p] = "idle"
    /\ Admit
    /\ req' = [req EXCEPT ![p] = [NoReq EXCEPT !.op = "Health"]]
    /\ resp' = [resp EXCEPT ![p] = Response(200, <<>>)]
    /\ pc' = [pc EXCEPT ![p] = "ret"]
    /\ UNCHANGED <<todos, nextID, todoMu, clock, local, created, deleted, snap>>

Next ==
    \/ \E p \in Procs : CreateTodo(p)
    \/ \E p \in Procs : GetTodos(p)
    \/ \E p \in Procs : GetTodosAll(p)
    \/ \E p \in Procs : GetTodo(p)
    \/ \E p \in Procs : UpdateTodo(p)
    \/ \E p \in Procs : DeleteTodo(p)
    \/ \E p \in Procs : Health(p)
    \/ \E p \in Procs : Unlock(p)
    \/ \E p \in Procs : RUnlock(p)
    \/ \E p \in Procs : Return(p)

Spec == Init /\ [][Next]_vars

(* ------------------------------------------- the listing, on its own *)

\* The listing is checked over collections of 0..MaxItems records and the
\* pages 1..MaxPage, next to the literals below.
MaxItems == 25
MaxPage == 4

DigitChar(d) ==
    CASE d = 0 -> "0" [] d = 1 -> "1" [] d = 2 -> "2" [] d = 3 -> "3" [] d = 4 -> "4"
      [] d = 5 -> "5" [] d = 6 -> "6" [] d = 7 -> "7" [] d = 8 -> "8" [] d = 9 -> "9"

\* The decimal literal of n >= 0, as a client writes it in the query string.
RECURSIVE Itoa(_)
Itoa(n) == IF n < 10 THEN <<DigitChar(n)>> ELSE Append(Itoa(n \div 10), DigitChar(n % 10))

\* page=: absent, not a number, zero, negative, 1..MaxPage, the largest int,
\* a number no int holds, and the page whose offset with limit=64 is 2^IntBits
PageParams ==
    {<<>>, <<"x">>, <<"0">>, <<"-", "1">>, Itoa(MaxInt), Append(Itoa(MaxInt), "0"),
     Itoa(2 ^ (IntBits - 6) + 1)}
    \cup {Itoa(n) : n \in 1..MaxPage}

\* limit=: absent, not a number, zero, negative, 1..100, above 100
LimitParams ==
    {<<>>, <<"x">>, <<"0">>, <<"-", "5">>, Itoa(MaxLimit + 1), Itoa(5 * MaxLimit)}
    \cup {Itoa(n) : n \in 1..MaxLimit}

PageQueries == {[page |-> pg, limit |-> l] : pg \in PageParams, l \in LimitParams}

\* The collection after n + d Creates ("title": "a") and the Delete of the
\* first d records.
Collection(n, d) ==
    [k \in 1..n |-> [ID |-> k + d, Title |-> "a", Description |-> "", Completed |-> FALSE,
                     CreatedAt |-> 1, UpdatedAt |-> 1]]

Lister == "p1"

InitPage ==
    /\ \E n \in 0..MaxItems, d \in 0..1 :
          /\ todos = Collection(n, d)
          /\ nextID = n + d + 1
          /\ created = [k \in 1..(n + d) |-> k]
          /\ deleted = 1..d
    /\ todoMu = [writer |-> None, readers |-> {}]
    /\ clock = 1
    /\ pc = [p \in Procs |-> "idle"]
    /\ req = [p \in Procs |-> NoReq]
    /\ local = [p \in Procs |-> NoLocal]
    /\ resp = [p \in Procs |-> NoResp]
    /\ snap = [p \in Procs |-> NoSnap]
    /\ started = MaxRequests - 1

NextPage ==
    \/ \E query \in PageQueries : GetTodosStart(Lister, query)
    \/ GetTodosRLock(Lister)
    \/ GetTodosPage(Lister)
    \/ RUnlock(Lister)

\* One paginated listing of a collection of any size, with any query.
SpecPage == InitPage /\ [][NextPage]_vars

(* ------------------------------------------- the requests by id, widely *)

\* :id as the router hands it over: ids of records, zero, a negative and a
\* signed number, letters, digits followed by a letter, a number no int holds
WideIdParams ==
    IdParams \cup {<<"0">>, <<"-", "1">>, <<"+", "1">>, <<"1", "x">>, Append(Itoa(MaxInt), "0")}

\* The stores the requests by id are run against hold 0..MaxStored records.
MaxStored == 2

InitIds ==
    /\ \E n \in 0..MaxStored, d \in 0..1 :
          /\ todos = Collection(n, d)
          /\ nextID = n + d + 1
          /\ created = [k \in 1..(n + d) |-> k]
          /\ deleted = 1..d
    /\ todoMu = [writer |-> None, readers |-> {}]
    /\ clock = 1
    /\ pc = [p \in Procs |-> "idle"]
    /\ req = [p \in Procs |-> NoReq]
    /\ local = [p \in Procs |-> NoLocal]
    /\ resp = [p \in Procs |-> NoResp]
    /\ snap = [p \in Procs |-> NoSnap]
    /\ started = MaxRequests - 2

NextIds ==
    \/ \E p \in Procs, id \in WideIdParams : GetTodoParse(p, id)
    \/ \E p \in Procs : GetTodoRLock(p)
    \/ \E p \in Procs : GetTodoScan(p)
    \/ \E p \in Procs, id \in WideIdParams, body \in Bodies : UpdateTodoParse(p, id, body)
    \/ \E p \in Procs : UpdateTodoLock(p)
    \/ \E p \in Procs : UpdateTodoScan(p)
    \/ \E p \in Procs : UpdateTodoUpdatedAt(p)
    \/ \E p \in Procs : UpdateTodoStore(p)
    \/ \E p \in Procs, id \in WideIdParams : DeleteTodoParse(p, id)
    \/ \E p \in Procs : DeleteTodoLock(p)
    \/ \E p \in Procs : DeleteTodoScan(p)
    \/ \E p \in Procs : DeleteTodoRemove(p)
    \/ \E p \in Procs : Unlock(p)
    \/ \E p \in Procs : RUnlock(p)
    \/ \E p \in Procs : Return(p)

\* Two requests by id, with any :id, against a store of any of these sizes.
SpecIds == InitIds /\ [][NextIds]_vars

(* ------------------------------------- requests without end, and fairness *)

\* sync.RWMutex in two steps for a writer.  Lock() first shuts the readers
\* out: from the call on, RLock() blocks (CanRLock is false, since the
\* writer is named in todoMu); it returns once the readers that were inside
\* have left.  Unlock() lets the blocked readers in.
LockPcs == {"c_lock", "u_lock", "d_lock"}
RLockPcs == {"g_rlock", "l_rlock", "a_rlock"}

AfterLock(p) ==
    CASE pc[p] = "c_lock" -> "c_id"
      [] pc[p] = "u_lock" -> "u_scan"
      [] pc[p] = "d_lock" -> "d_scan"

\* todoMu.Lock() is called: no other writer has the lock or waits for it.
WriterLockCall(p) ==
    /\ pc[p] \in LockPcs
    /\ todoMu.writer = None
    /\ todoMu' = [todoMu EXCEPT !.writer = p]
    /\ UNCHANGED <<todos, nextID, clock, pc, req, local, resp, created, deleted, snap, started>>

\* todoMu.Lock() returns: the last reader has left.
WriterLockEnter(p) ==
    /\ pc[p] \in LockPcs
    /\ todoMu.writer = p
    /\ todoMu.readers = {}
    /\ snap' = [snap EXCEPT ![p] = [held |-> TRUE, todos |-> todos, nextID |-> nextID]]
    /\ pc' = [pc EXCEPT ![p] = AfterLock(p)]
    /\ UNCHANGED <<todos, nextID, todoMu, clock, req, local, resp, created, deleted, started>>

\* The requests of the specification with fairness: an id that parses and
\* one that does not, a body that binds and one that does not, the default
\* listing and the listing of the page MaxInt.
LiveIds == {<<"1">>, <<"x">>}
LiveBodies == {MalformedBody, TitleOnlyBody}
LiveQueries == {[page |-> <<>>, limit |-> <<>>], [page |-> Itoa(MaxInt), limit |-> <<>>]}

\* A request arrives for the goroutine.
Arrive(p) ==
    \/ \E body \in LiveBodies : CreateTodoBind(p, body)
    \/ \E query \in LiveQueries : GetTodosStart(p, query)
    \/ GetTodosAllStart(p)
    \/ \E id \in LiveIds : GetTodoParse(p, id)
    \/ \E id \in LiveIds, body \in LiveBodies : UpdateTodoParse(p, id, body)
    \/ \E id \in LiveIds : DeleteTodoParse(p, id)
    \/ Health(p)

\* The goroutine is given the lock it asked for.
Acquire(p) ==
    \/ WriterLockCall(p)
    \/ GetTodoRLock(p)
    \/ GetTodosRLock(p)
    \/ GetTodosAllRLock(p)

\* The goroutine runs a statement of its handler, the deferred unlock and
\* the return included.
Run(p) ==
    \/ WriterLockEnter(p)
    \/ CreateTodoAssignID(p)
    \/ CreateTodoIncrement(p)
    \/ CreateTodoCreatedAt(p)
    \/ CreateTodoUpdatedAt(p)
    \/ CreateTodoAppend(p)
    \/ CreateTodoAssign(p)
    \/ GetTodosPage(p)
    \/ GetTodosAllList(p)
    \/ GetTodoScan(p)
    \/ UpdateTodoScan(p)
    \/ UpdateTodoUpdatedAt(p)
    \/ UpdateTodoStore(p)
    \/ DeleteTodoScan(p)
    \/ DeleteTodoRemove(p)
    \/ Unlock(p)
    \/ RUnlock(p)
    \/ Return(p)

InitLive ==
    /\ todos = <<>>
    /\ nextID = 1
    /\ todoMu = [writer |-> None, readers |-> {}]
    /\ clock = MaxClock
    /\ pc = [p \in Procs |-> "idle"]
    /\ req = [p \in Procs |-> NoReq]
    /\ local = [p \in Procs |-> NoLocal]
    /\ resp = [p \in Procs |-> NoResp]
    /\ created = <<>>
    /\ deleted = {}
    /\ snap = [p \in Procs |-> NoSnap]
    /\ started = -1

NextLive ==
    \/ \E p \in Procs : Arrive(p)
    \/ \E p \in Procs : Acquire(p)
    \/ \E p \in Procs : Run(p)

\* The server has been up for a while (the clock reads MaxClock).  Requests
\* arrive without end, or stop arriving.  The scheduler runs every
\* goroutine that can run (WF); the lock is given to every goroutine that can
\* be given it again and again (SF): sync.Mutex hands the lock to a waiter
\* that has waited long, and Unlock() lets in the readers it blocked.
SpecLive ==
    /\ InitLive
    /\ [][NextLive]_vars
    /\ \A p \in Procs : WF_vars(Run(p)) /\ SF_vars(Acquire(p))

(* ---------------------------------------------------------------- claims *)

WriterOps == {"CreateTodo", "UpdateTodo", "DeleteTodo"}
ReaderOps == {"GetTodo", "GetTodos", "GetTodosAll"}

\* The goroutine is between taking and releasing the lock in a writing handler.
InWriteSection(p) ==
    \/ pc[p] \in {"c_id", "c_inc", "c_created", "c_updated", "c_append", "c_assign",
                  "u_scan", "u_now", "u_store", "d_scan", "d_remove"}
    \/ pc[p] = "ret" /\ req[p].op \in WriterOps /\ resp[p].status /= 400

\* The goroutine is between taking and releasing the lock in a reading handler.
InReadSection(p) ==
    \/ pc[p] \in {"g_scan", "a_list", "l_page"}
    \/ pc[p] = "ret" /\ req[p].op \in ReaderOps /\ resp[p].status /= 400

\* The handler of p has answered and not yet returned.
Answered(p, op, status) ==
    pc[p] = "ret" /\ req[p].op = op /\ resp[p].status = status

Ids(s) == {s[k].ID : k \in 1..Len(s)}

\* C1: the k-th successful Create returns id k, whatever Deletes, Updates,
\* Gets and Lists are interleaved: the returned ids are 1, 2, 3, ... in order.
C1_CreateReturnsConsecutiveIds ==
    \A k \in 1..Len(created) : created[k] = k

\* A second Create has just answered 201 with id 2 after id 1 was deleted.
C1_Witness ==
    \E p \in Procs :
        /\ Answered(p, "CreateTodo", 201)
        /\ resp[p].todos[1].ID = 2
        /\ created = <<1, 2>>
        /\ 1 \in deleted

\* C2: no two records of the collection have the same id, every id in the
\* collection is smaller than nextID, no deleted id is in the collection
\* again, and nextID never decreases.
C2_IdsUniqueNeverReused ==
    /\ [](/\ \A j, k \in 1..Len(todos) : j /= k => todos[j].ID /= todos[k].ID
          /\ \A k \in 1..Len(todos) : todos[k].ID < nextID
          /\ \A k \in 1..Len(todos) : todos[k].ID \notin deleted
          /\ \A id \in deleted : id < nextID)
    /\ [][nextID' >= nextID]_vars

\* Id 1 was deleted and a record created afterwards is in the collection.
C2_Witness ==
    /\ 1 \in deleted
    /\ Ids(todos) = {2}
    /\ nextID = 3

\* C3: the ids returned by Creates running concurrently are pairwise
\* distinct, and while no Delete has succeeded the collection holds one
\* record per successful Create.
C3_ConcurrentCreates ==
    /\ \A j, k \in 1..Len(created) : j /= k => created[j] /= created[k]
    /\ deleted = {} => Len(todos) = Len(created)

\* Two Creates overlap: one has stored its record and answered 201 and still
\* holds the lock, the other has bound its payload and waits for the lock.
C3_Witness ==
    \E p \in Procs :
        /\ Answered(p, "CreateTodo", 201)
        /\ \E q \in Procs \ {p} : pc[q] = "c_lock"
        /\ created = <<1>>
        /\ Len(todos) = 1

\* C4: while a writing handler is between Lock and Unlock no other handler
\* is inside its store section; a handler inside its store section holds the
\* lock in its mode; the collection and the counter change only by a step of
\* the handler that holds the write lock.
C4_LockDiscipline ==
    /\ [](/\ \A p \in Procs : InWriteSection(p) => todoMu.writer = p
          /\ \A p \in Procs : InReadSection(p) => p \in todoMu.readers
          /\ \A p, q \in Procs :
                p /= q /\ InWriteSection(p) => ~InWriteSection(q) /\ ~InReadSection(q))
    /\ [][todos' /= todos \/ nextID' /= nextID =>
             \E p \in Procs : InWriteSection(p) /\ todoMu.writer = p /\ pc'[p] /= pc[p]]_vars

\* A writer is inside its section while a reader and nobody else waits.
C4_Witness ==
    \E p, q \in Procs :
        /\ pc[p] = "u_store"
        /\ todoMu.writer = p
        /\ pc[q] = "g_rlock"

\* C5: an Update or a Delete that answers 404 leaves the collection (every
\* record, every field, the order) and nextID as they were when it took the
\* lock, whatever the other requests do.
C5_NotFoundChangesNothing ==
    \A p \in Procs :
        (Answered(p, "UpdateTodo", 404) \/ Answered(p, "DeleteTodo", 404)) =>
            todos = snap[p].todos /\ nextID = snap[p].nextID

\* A Delete of an absent id has answered 404 on a non-empty collection while
\* another Delete waits.
C5_Witness ==
    \E p, q \in Procs :
        /\ Answered(p, "DeleteTodo", 404)
        /\ todos /= <<>>
        /\ pc[q] = "d_lock"

\* C6: a successful Update(id, draft) replaces the record with that id in
\* place: same position, id = the path id, created_at as before, title,
\* description and completed as the body gives them, "" and FALSE for the keys
\* the body lacks; every other record, the length and nextID are as they were
\* when the handler took the lock; the answer is the stored record.
C6_UpdateReplacesInPlace ==
    \A p \in Procs :
        Answered(p, "UpdateTodo", 200) =>
            LET old == snap[p].todos
                id == Atoi(req[p].id)
                b == req[p].body
            IN  /\ \E k \in 1..Len(old) : old[k].ID = id
                /\ LET i == CHOOSE k \in 1..Len(old) : old[k].ID = id
                   IN  /\ Len(todos) = Len(old)
                       /\ todos[i].ID = id
                       /\ todos[i].CreatedAt = old[i].CreatedAt
                       /\ todos[i].Title = (IF "title" \in b.has THEN b.title ELSE "")
                       /\ todos[i].Description =
                              (IF "description" \in b.has THEN b.description ELSE "")
                       /\ todos[i].Completed =
                              (IF "completed" \in b.has THEN b.completed ELSE FALSE)
                       /\ \A j \in 1..Len(old) : j /= i => todos[j] = old[j]
                       /\ resp[p].todos = <<todos[i]>>
                /\ nextID = snap[p].nextID

\* An Update whose body has the title only has answered 200 for the second
\* of two records, which had a description and was completed.
C6_Witness ==
    \E p \in Procs :
        /\ Answered(p, "UpdateTodo", 200)
        /\ req[p].body = TitleOnlyBody
        /\ req[p].id = <<"2">>
        /\ Len(todos) = 2
        /\ snap[p].todos[2].Description = "d"
        /\ snap[p].todos[2].Completed
        /\ todos[2].Description = ""

\* C7: once Delete(id) has succeeded, every Get(id), Delete(id) and
\* Update(id, draft) with a well-formed draft that answers afterwards answers
\* 404, whatever was created in between.
C7_DeletedStaysNotFound ==
    [][\A p \in Procs :
          (/\ resp[p].status = 0
           /\ resp'[p].status /= 0
           /\ req'[p].op \in {"GetTodo", "UpdateTodo", "DeleteTodo"}
           /\ AtoiOk(req'[p].id)
           /\ Atoi(req'[p].id) \in deleted
           /\ req'[p].op = "UpdateTodo" => req'[p].body.ok)
          => resp'[p].status = 404]_vars

\* Id 1 was deleted, a record was created after it, and a Get of id 1 has
\* answered 404.
C7_Witness ==
    \E p \in Procs :
        /\ Answered(p, "GetTodo", 404)
        /\ req[p].id = <<"1">>
        /\ 1 \in deleted
        /\ Ids(todos) = {2}

C9_CreateThenGet ==
    [][/\ \A p \in Procs :
             pc[p] = "c_assign" /\ pc'[p] = "ret" =>
                 LET b == req[p].body
                     r == resp'[p].todos[1]
                 IN  /\ resp'[p].status = 201
                     /\ r.Title = (IF "title" \in b.has THEN b.title ELSE "")
                     /\ r.Description =
                            (IF "description" \in b.has THEN b.description ELSE "")
                     /\ r.Completed = (IF "completed" \in b.has THEN b.completed ELSE FALSE)
                     /\ r.ID \notin Ids(todos)
                     /\ todos' = Append(todos, r)
       /\ \A k \in 1..Len(todos) :
             \/ \E j \in 1..Len(todos') :
                   /\ todos'[j].ID = todos[k].ID
                   /\ todos'[j].Title = todos[k].Title
                   /\ todos'[j].Description = todos[k].Description
                   /\ todos'[j].Completed = todos[k].Completed
             \/ \E p \in Procs :
                   /\ req[p].op \in {"UpdateTodo", "DeleteTodo"}
                   /\ pc'[p] /= pc[p]
                   /\ AtoiOk(req[p].id)
                   /\ Atoi(req[p].id) = todos[k].ID
       /\ \A p \in Procs :
             pc[p] = "g_scan" /\ pc'[p] = "ret" =>
                 \A k \in 1..Len(todos) :
                     todos[k].ID = Atoi(req[p].id) =>
                         resp'[p].status = 200 /\ resp'[p].todos = <<todos[k]>>]_vars

\* A Get of id 2, created from the body with the title only, has answered
\* 200 with that record after id 1 was deleted.
C9_Witness ==
    \E p \in Procs :
        /\ Answered(p, "GetTodo", 200)
        /\ req[p].id = <<"2">>
        /\ resp[p].todos[1].ID = 2
        /\ resp[p].todos[1].Title = "a"
        /\ resp[p].todos[1].Description = ""
        /\ ~resp[p].todos[1].Completed
        /\ resp[p].todos[1].CreatedAt = resp[p].todos[1].UpdatedAt
        /\ 1 \in deleted

\* C10: every record stored by Create has created_at equal to updated_at.
C10_CreateTimestampsEqual ==
    \A p \in Procs :
        Answered(p, "CreateTodo", 201) =>
            /\ resp[p].todos[1].CreatedAt = resp[p].todos[1].UpdatedAt
            /\ todos[Len(todos)].CreatedAt = todos[Len(todos)].UpdatedAt

\* The position in s of the record with the id (there is one).
IndexOf(s, id) == CHOOSE k \in 1..Len(s) : s[k].ID = id

\* C11 as stated: after every successful Update the record's updated_at is
\* strictly later than the updated_at it had before the update.
C11_UpdatedAtStrictlyLater ==
    \A p \in Procs :
        Answered(p, "UpdateTodo", 200) =>
            LET i == IndexOf(snap[p].todos, Atoi(req[p].id))
            IN  todos[i].UpdatedAt > snap[p].todos[i].UpdatedAt

\* C11, amended: after every successful Update the record's updated_at is
\* the instant time.Now() gave during the update: not earlier than the
\* updated_at it had before nor than created_at, whatever the body carried,
\* and equal to the former when the clock has not moved since.
C11_UpdatedAtNotEarlier ==
    \A p \in Procs :
        Answered(p, "UpdateTodo", 200) =>
            LET i == IndexOf(snap[p].todos, Atoi(req[p].id))
            IN  /\ todos[i].UpdatedAt = clock
                /\ todos[i].UpdatedAt >= snap[p].todos[i].UpdatedAt
                /\ todos[i].UpdatedAt >= todos[i].CreatedAt
                /\ resp[p].todos[1].UpdatedAt = todos[i].UpdatedAt

\* An Update has answered 200 and the record's updated_at is the one it had.
C11_Witness ==
    \E p \in Procs :
        /\ Answered(p, "UpdateTodo", 200)
        /\ LET i == IndexOf(snap[p].todos, Atoi(req[p].id))
           IN  todos[i].UpdatedAt = snap[p].todos[i].UpdatedAt

(* ------------------------------------------------- claims on the listing *)

\* A listing has answered, or failed, and its handler still holds the lock.
Listed(p) == pc[p] = "ret" /\ req[p].op = "GetTodos"

\* page= is the literal of an int >= 1 and limit= the literal of one in 1..100.
PlainQuery(r) ==
    /\ r.page /= <<>> /\ AtoiOk(r.page) /\ Atoi(r.page) >= 1
    /\ r.limit /= <<>> /\ AtoiOk(r.limit) /\ Atoi(r.limit) \in 1..MaxLimit

\* The page the listing is specified to answer for page and limit over the
\* collection s, in unbounded arithmetic.
SpecifiedPage(s, page, limit) ==
    LET total == Len(s)
        totalPages == IF total = 0 THEN 1 ELSE (total + limit - 1) \div limit
        offset == (page - 1) * limit
        last == IF offset + limit < total THEN offset + limit ELSE total
    IN  [total_count |-> total,
         total_pages |-> totalPages,
         todos |-> IF offset < total THEN SubSeq(s, offset + 1, last) ELSE <<>>,
         has_next |-> offset < total /\ page < totalPages,
         has_prev |-> page > 1]

IsSpecifiedPage(p) ==
    LET want == SpecifiedPage(todos, Atoi(req[p].page), Atoi(req[p].limit))
    IN  /\ resp[p].status = 200
        /\ resp[p].todos = want.todos
        /\ resp[p].meta.total_count = want.total_count
        /\ resp[p].meta.total_pages = want.total_pages
        /\ resp[p].meta.has_next = want.has_next
        /\ resp[p].meta.has_prev = want.has_prev

\* C12 as stated: for every collection size, every page >= 1 and every limit
\* in 1..100 the listing answers total_count = size, total_pages =
\* max(1, ceil(total_count / limit)), the records at [offset, min(offset +
\* limit, total_count)) with has_next = (page < total_pages) when offset =
\* (page - 1) * limit is below total_count, the empty list with has_next =
\* false otherwise, and has_prev = (page > 1).
C12_ListPage ==
    \A p \in Procs : Listed(p) /\ PlainQuery(req[p]) => IsSpecifiedPage(p)

\* C12 for the pages whose offset and end the int holds: there the listing
\* answers as specified.
C12_ListPageWithoutOverflow ==
    \A p \in Procs :
        /\ Listed(p) /\ PlainQuery(req[p])
        /\ Atoi(req[p].page) * Atoi(req[p].limit) <= MaxInt
        => IsSpecifiedPage(p)

\* 25 records with limit 10: page 3 answers the last five, page 4 none.
C12_Witness ==
    /\ Listed(Lister) /\ Len(todos) = 25 /\ req[Lister].limit = <<"1", "0">>
    /\ resp[Lister].status = 200 /\ resp[Lister].meta.total_pages = 3
    /\ \/ req[Lister].page = <<"3">> /\ Len(resp[Lister].todos) = 5
       \/ req[Lister].page = <<"4">> /\ resp[Lister].todos = <<>>

\* page= is the literal of an int >= 1 whose page lies beyond the records.
BeyondData(p) ==
    /\ req[p].page /= <<>> /\ AtoiOk(req[p].page) /\ Atoi(req[p].page) >= 1
    /\ (Atoi(req[p].page) - 1) * EffectiveLimit(req[p].limit) >= Len(todos)

\* C13 as stated: the listing never fails and never takes an index outside
\* the collection; for every page an int holds, the largest included, a page
\* beyond the data answers 200 with the empty list, has_next = false,
\* has_prev = (page > 1) and the counts of the collection.
C13_ListNeverFails ==
    \A p \in Procs :
        Listed(p) =>
            /\ resp[p].status = 200
            /\ BeyondData(p) =>
                  /\ resp[p].todos = <<>>
                  /\ ~resp[p].meta.has_next
                  /\ resp[p].meta.has_prev = (Atoi(req[p].page) > 1)
                  /\ resp[p].meta.total_count = Len(todos)
                  /\ resp[p].meta.total_pages =
                        SpecifiedPage(todos, 1, EffectiveLimit(req[p].limit)).total_pages

\* A page beyond the data whose offset the int holds is answered as claimed.
C13_Witness ==
    /\ Listed(Lister) /\ BeyondData(Lister) /\ req[Lister].page = Itoa(MaxPage)
    /\ Len(todos) > 0
    /\ resp[Lister].status = 200 /\ resp[Lister].todos = <<>>
    /\ resp[Lister].meta.has_prev /\ ~resp[Lister].meta.has_next

\* A parameter that is absent, not an integer, zero or negative.
BadParam(param) == param = <<>> \/ ~AtoiOk(param) \/ Atoi(param) <= 0

\* The values the listing is specified to use, each from its own parameter.
SpecifiedPerPage(param) ==
    IF BadParam(param) THEN DefaultLimit
    ELSE IF Atoi(param) > MaxLimit THEN MaxLimit ELSE Atoi(param)

SpecifiedCurrentPage(param) == IF BadParam(param) THEN DefaultPage ELSE Atoi(param)

HasSpecifiedParameters(p) ==
    /\ resp[p].meta.per_page = SpecifiedPerPage(req[p].limit)
    /\ resp[p].meta.current_page = SpecifiedCurrentPage(req[p].page)
    /\ resp[p].meta.per_page \in 1..MaxLimit
    /\ resp[p].meta.current_page >= 1

\* C14 as stated: per_page is 10 for a limit that is absent, not an integer,
\* zero or negative, 100 for a limit above 100, the limit itself in 1..100;
\* current_page is 1 for a page that is absent, not an integer, zero or
\* negative; neither parameter changes the other or fails the request, so
\* every response has per_page in 1..100 and current_page >= 1.
C14_DefaultedAndClamped ==
    \A p \in Procs : Listed(p) => resp[p].status = 200 /\ HasSpecifiedParameters(p)

\* C14 for the listings that answer: their per_page and current_page are the
\* specified ones.
C14_AnsweredParameters ==
    \A p \in Procs : Listed(p) /\ resp[p].status = 200 => HasSpecifiedParameters(p)

\* limit=500 with page=0 answers per_page 100 and current_page 1.
C14_Witness ==
    /\ Listed(Lister) /\ req[Lister].limit = Itoa(5 * MaxLimit) /\ req[Lister].page = <<"0">>
    /\ resp[Lister].status = 200
    /\ resp[Lister].meta.per_page = MaxLimit /\ resp[Lister].meta.current_page = 1

\* The lists of the pages 1..k of s for the limit parameter, one after the
\* other.
RECURSIVE ConcatPages(_, _, _)
ConcatPages(s, limitParam, k) ==
    IF k = 0 THEN <<>>
    ELSE ConcatPages(s, limitParam, k - 1) \o Paginate(s, Itoa(k), limitParam).todos

\* C20: with the store unchanged between the calls, the lists of the pages
\* 1..total_pages, in that order, are together exactly the collection; no
\* page holds more than per_page records; has_next of a page is true
\* exactly when the next page is not empty.
C20_PagesPartitionCollection ==
    \A p \in Procs :
        Listed(p) /\ resp[p].status = 200 =>
            LET l == req[p].limit
                Page(k) == Paginate(todos, Itoa(k), l)
                pages == 1..resp[p].meta.total_pages
            IN  /\ ConcatPages(todos, l, resp[p].meta.total_pages) = todos
                /\ \A k \in pages :
                      /\ Page(k).status = 200
                      /\ Len(Page(k).todos) <= resp[p].meta.per_page
                      /\ Page(k).meta.has_next <=> Page(k + 1).todos /= <<>>
                /\ resp[p].meta.current_page \in pages =>
                      /\ resp[p] = Page(resp[p].meta.current_page)
                      /\ Len(resp[p].todos) <= resp[p].meta.per_page
                      /\ resp[p].meta.has_next <=>
                            Page(resp[p].meta.current_page + 1).todos /= <<>>

\* 25 records in pages of 10: the second of three pages has a next page, and
\* the three lists hold 10, 10 and 5 records.
C20_Witness ==
    /\ Listed(Lister) /\ resp[Lister].status = 200 /\ Len(todos) = 25
    /\ req[Lister].limit = <<"1", "0">> /\ req[Lister].page = <<"2">>
    /\ resp[Lister].meta.total_pages = 3 /\ resp[Lister].meta.has_next
    /\ Len(resp[Lister].todos) = 10
    /\ Len(Paginate(todos, <<"3">>, <<"1", "0">>).todos) = 5

(* ------------------------------------------ claims on the requests by id *)

ByIdOps == {"GetTodo", "UpdateTodo", "DeleteTodo"}

\* The goroutine holds no lock and has held none in this request.
NeverLocked(p) == ~snap[p].held /\ todoMu.writer /= p /\ p \notin todoMu.readers

\* The collection the handler works on: the one it locked, the current one
\* when it has taken no lock.
StoreSeen(p) == IF snap[p].held THEN snap[p].todos ELSE todos

\* A request whose :id is no int is answered 400 at once, without the lock.
RejectsBadId(p) ==
    ~AtoiOk(req[p].id) => pc[p] = "ret" /\ resp[p].status = 400 /\ NeverLocked(p)

\* The store and the lock are as they were when a request is rejected.
RejectionStep ==
    \A p \in Procs :
        pc[p] = "idle" /\ pc'[p] = "ret" /\ resp'[p].status = 400
            => UNCHANGED <<todos, nextID, todoMu, created, deleted>>

\* C15 as stated: Get, Update and Delete with an :id that is no int answer
\* 400, without the lock and with the store unchanged; with an :id that is
\* an int (zero and negative included) they answer 404 exactly when no record
\* has that id, and 400 at most for the body of an Update.
C15_IdDecidesAlone ==
    \A p \in Procs :
        req[p].op \in ByIdOps =>
            /\ RejectsBadId(p)
            /\ AtoiOk(req[p].id) /\ pc[p] = "ret" =>
                  /\ resp[p].status = 400 => req[p].op = "UpdateTodo" /\ ~req[p].body.ok
                  /\ resp[p].status = 404 <=> Atoi(req[p].id) \notin Ids(StoreSeen(p))

\* C15, amended: as stated for Get, Delete and an Update whose body binds; an
\* Update whose body is malformed answers 400 without the lock whatever its
\* :id; a rejection leaves store and lock as they were.
C15_IdThenBody ==
    /\ [](\A p \in Procs :
            req[p].op \in ByIdOps =>
                /\ RejectsBadId(p)
                /\ AtoiOk(req[p].id) /\ pc[p] = "ret" =>
                      IF req[p].op = "UpdateTodo" /\ ~req[p].body.ok
                      THEN resp[p].status = 400 /\ NeverLocked(p)
                      ELSE /\ resp[p].status /= 400
                           /\ snap[p].held
                           /\ resp[p].status = 404 <=>
                                 Atoi(req[p].id) \notin Ids(snap[p].todos))
    /\ [][RejectionStep]_vars

\* With records in the store, a Get of "1x" stands answered 400 and a Delete
\* of "0" 404, or an Update of "-1" whose body binds stands answered 404.
C15_Witness ==
    /\ todos /= <<>>
    /\ \E p, q \in Procs :
          /\ Answered(p, "GetTodo", 400) /\ req[p].id = <<"1", "x">>
          /\ \/ Answered(q, "DeleteTodo", 404) /\ req[q].id = <<"0">>
             \/ Answered(q, "UpdateTodo", 404) /\ req[q].id = <<"-", "1">>

(* ---------------------------------------------- claims on the payload *)

\* The Creates that have taken their id and not yet answered.
CreatesPastIncrement ==
    {q \in Procs : pc[q] \in {"c_created", "c_updated", "c_append", "c_assign"}}

\* C16: a Create or an Update whose payload is malformed answers 400 without
\* the lock, whether or not the id of the Update exists; the step leaves the
\* collection and nextID as they were; the ids taken from the counter are
\* those of the Creates that got past the binding, so that a rejected Create
\* consumes none.
C16_MalformedPayloadRejected ==
    /\ [](\A p \in Procs :
            req[p].op \in {"CreateTodo", "UpdateTodo"} /\ ~req[p].body.ok =>
                pc[p] = "ret" /\ resp[p].status = 400 /\ NeverLocked(p))
    /\ [](nextID = 1 + Len(created) + Cardinality(CreatesPastIncrement))
    /\ [][RejectionStep]_vars
    /\ [][\A p \in Procs :
            pc[p] = "c_assign" /\ pc'[p] = "ret" =>
                resp'[p].status = 201 /\ resp'[p].todos[1].ID = Len(created) + 1]_vars

\* A Create with a malformed payload stands rejected after a Create answered
\* 201, the counter still one past that id, and an Update of the stored
\* record with a malformed payload stands rejected as well.
C16_Witness ==
    \E p, q \in Procs :
        /\ p /= q
        /\ Answered(p, "CreateTodo", 400)
        /\ Answered(q, "UpdateTodo", 400) /\ AtoiOk(req[q].id) /\ ~req[q].body.ok
        /\ Atoi(req[q].id) \in Ids(todos)
        /\ created = <<1>> /\ nextID = 2

(* ------------------------------------------------ claims on the frame *)

\* The goroutine takes a step of its handler.
Steps(p) == pc'[p] /= pc[p]

\* The request the goroutine is serving in this step.
Serving(p) == IF pc[p] = "idle" THEN req'[p].op ELSE req[p].op

\* C17: the size of the collection changes only in the step of a Create that
\* answers 201 (+1) and of a Delete that answers 200 (-1); nextID changes
\* only in a Create that goes on to answer 201 (+1); a handler that held the
\* lock leaves, up to its answer, the size and the counter it found, but for
\* those two; Get, both listings, the health check and every rejection change
\* nothing of the collection and the counter.
C17_OnlyCreateAndDeleteResize ==
    /\ [][/\ Len(todos') /= Len(todos) =>
                \E p \in Procs :
                    /\ Steps(p) /\ pc'[p] = "ret"
                    /\ \/ /\ Serving(p) = "CreateTodo" /\ resp'[p].status = 201
                          /\ Len(todos') = Len(todos) + 1
                       \/ /\ Serving(p) = "DeleteTodo" /\ resp'[p].status = 200
                          /\ Len(todos') = Len(todos) - 1
          /\ nextID' /= nextID =>
                \E p \in Procs :
                    /\ Steps(p) /\ Serving(p) = "CreateTodo" /\ req[p].body.ok
                    /\ nextID' = nextID + 1
          /\ \A p \in Procs :
                Steps(p) /\ (Serving(p) \notin WriterOps \/ resp'[p].status \in {400, 404})
                    => todos' = todos /\ nextID' = nextID]_vars
    /\ [](\A p \in Procs :
            pc[p] = "ret" /\ snap[p].held =>
                LET grown == IF Answered(p, "CreateTodo", 201) THEN 1 ELSE 0
                    shrunk == IF Answered(p, "DeleteTodo", 200) THEN 1 ELSE 0
                IN  /\ Len(todos) = Len(snap[p].todos) + grown - shrunk
                    /\ nextID = snap[p].nextID + grown
                    /\ req[p].op \in ReaderOps => todos = snap[p].todos)

\* A Delete has answered 200 with one record of two gone and the counter as
\* it was, while a health check stands answered.
C17_Witness ==
    \E p, q \in Procs :
        /\ Answered(p, "DeleteTodo", 200)
        /\ Len(snap[p].todos) = 2 /\ Len(todos) = 1 /\ nextID = snap[p].nextID
        /\ Answered(q, "Health", 200)

(* ------------------------------------------- claims on the atomicity *)

\* s without the records of the id.
Without(s, id) == SelectSeq(s, LAMBDA t : t.ID /= id)

\* The values a request sets in a record: title, description, completed.
SameContent(t, draft) ==
    /\ t.Title = draft.Title
    /\ t.Description = draft.Description
    /\ t.Completed = draft.Completed

\* The answer of p and the store are those of its request run alone on the
\* store s with the counter n (the timestamps apart, which are the clock's).
SerialOutcome(p, s, n) ==
    LET op == req[p].op
        id == Atoi(req[p].id)
        status == resp[p].status
    IN  CASE op = "CreateTodo" ->
                /\ status = 201 /\ nextID = n + 1
                /\ Len(todos) = Len(s) + 1 /\ SubSeq(todos, 1, Len(s)) = s
                /\ todos[Len(todos)].ID = n
                /\ SameContent(todos[Len(todos)], BindJSON(req[p].body))
                /\ resp[p].todos = <<todos[Len(todos)]>>
          [] op = "DeleteTodo" ->
                /\ nextID = n
                /\ IF id \in Ids(s)
                   THEN status = 200 /\ todos = Without(s, id) /\ Len(todos) = Len(s) - 1
                   ELSE status = 404 /\ todos = s
          [] op = "UpdateTodo" ->
                /\ nextID = n
                /\ IF id \in Ids(s)
                   THEN /\ status = 200 /\ Len(todos) = Len(s)
                        /\ \A k \in 1..Len(s) :
                              IF s[k].ID = id
                              THEN /\ todos[k].ID = id
                                   /\ todos[k].CreatedAt = s[k].CreatedAt
                                   /\ SameContent(todos[k], BindJSON(req[p].body))
                                   /\ resp[p].todos = <<todos[k]>>
                              ELSE todos[k] = s[k]
                   ELSE status = 404 /\ todos = s
          [] op = "GetTodo" ->
                /\ nextID = n /\ todos = s
                /\ IF id \in Ids(s)
                   THEN status = 200 /\ resp[p].todos = <<s[IndexOf(s, id)]>>
                   ELSE status = 404
          [] op = "GetTodos" ->
                nextID = n /\ todos = s /\ resp[p] = Paginate(s, req[p].page, req[p].limit)
          [] op = "GetTodosAll" ->
                nextID = n /\ todos = s /\ status = 200 /\ resp[p].todos = s

\* C19: every handler that took the lock answers, and leaves the store, as
\* its request run alone on the store it found when it took the lock, so a
\* concurrent run is the serial run in the order of the lock; of the Deletes
\* of one id a single one removes a record and answers 200, each other one
\* finds the id gone and answers 404; an Update answers 200 only for an id
\* that was in the store when it took the lock, and adds no record.
C19_CheckThenActAtomic ==
    /\ [](\A p \in Procs :
            pc[p] = "ret" /\ snap[p].held => SerialOutcome(p, snap[p].todos, snap[p].nextID))
    /\ [](\A p \in Procs :
            /\ Answered(p, "DeleteTodo", 200) => Atoi(req[p].id) \notin Ids(todos)
            /\ req[p].op \in {"DeleteTodo", "UpdateTodo"} /\ pc[p] = "ret" /\ snap[p].held
               /\ Atoi(req[p].id) \in deleted /\ ~Answered(p, "DeleteTodo", 200)
                   => resp[p].status = 404)
    /\ [][\A p \in Procs :
            pc[p] = "d_remove" /\ pc'[p] = "ret" =>
                /\ local[p].id \notin deleted
                /\ Len(todos') = Len(todos) - 1
                /\ Ids(todos') = Ids(todos) \ {local[p].id}]_vars
    /\ [][\A p \in Procs :
            Steps(p) /\ Serving(p) = "UpdateTodo" => Ids(todos') = Ids(todos)]_vars

\* Two Deletes of the id 1 are in flight: one has removed the record and
\* answered 200, the other still waits for the lock.
C19_Witness ==
    \E p, q \in Procs :
        /\ Answered(p, "DeleteTodo", 200) /\ req[p].id = <<"1">>
        /\ req[q].op \in {"DeleteTodo", "UpdateTodo"} /\ req[q].id = <<"1">>
        /\ pc[q] \in {"d_lock", "u_lock"}

(* --------------------------------------------- claims on the progress *)

\* The goroutine waits for the lock.
Waiting(p) == pc[p] \in LockPcs \cup RLockPcs

\* C18: with the scheduler and the lock fair, every request that has arrived
\* is answered and its handler returns; a handler that waits for the lock is
\* given it, a writer also while readers keep arriving; a handler that has
\* the lock releases it, after a 200, a 404 and a panic alike; and whenever
\* a request is in flight some handler can take a step.
C18_EveryRequestAnswered ==
    /\ \A p \in Procs : (pc[p] /= "idle") ~> (pc[p] = "ret" /\ resp[p].status /= 0)
    /\ \A p \in Procs : (pc[p] = "ret") ~> (pc[p] = "idle")
    /\ \A p \in Procs : Waiting(p) ~> snap[p].held
    /\ \A p \in Procs : snap[p].held ~> NeverLocked(p)
    /\ []((\E p \in Procs : pc[p] /= "idle") =>
            ENABLED (\E p \in Procs : Acquire(p) \/ Run(p)))

\* A writer has called Lock() and waits for a reader to leave, which the
\* other goroutine is: it has the shared lock after a listing that panicked.
C18_Witness ==
    \E w, r \in Procs :
        /\ pc[w] \in LockPcs /\ todoMu.writer = w
        /\ r \in todoMu.readers /\ Answered(r, "GetTodos", 500)


====
